---- MODULE Spec2Model ----
(***************************************************************************)
(* The simulated-register flight-controller demo (nasa_macro.c): the       *)
(* register bank HW, the macros that write it, the control loop built on   *)
(* them, the X-macro error table and the demo main().                      *)
(*                                                                         *)
(* A uint32_t is kept as two 16-bit halves [hi, lo], so that every 32-bit  *)
(* value (also those at and above 2^31) is represented exactly; an int is  *)
(* an ordinary integer in -2^31 .. 2^31-1.                                 *)
(***************************************************************************)
EXTENDS Integers, Sequences, FiniteSets, TLC

VARIABLES
    BUILD,        \* build profile: "FLIGHT_BUILD" or "GROUND_BUILD"
    CPU,          \* architecture tag: "CPU_ARM" or "CPU_RISCV"
    HW,           \* the register bank: CTRL, STATUS, THRUST, SENS_TEMP
    op,           \* the operation called last ("none" before any call)
    arg,          \* its uint32_t argument (zero when it takes none)
    rc,           \* its return code (main: the rc / _rc local)
    code,         \* error_to_str: the code looked up
    msg,          \* error_to_str: the string returned
    pc,           \* main: position in the program ("none": no main running)
    i,            \* main: the loop counter
    stderr,       \* main: the "ERROR %d: %s" lines printed, as <<rc, msg>>
    exit_status   \* main: -1 while running, then the process exit status

vars == <<BUILD, CPU, HW, op, arg, rc, code, msg, pc, i, stderr, exit_status>>
cfgVars == <<BUILD, CPU>>
callVars == <<op, arg, code, msg>>
mainVars == <<pc, i, stderr, exit_status>>

(***************************************************************************)
(* Bounds of the model.                                                    *)
(***************************************************************************)
\* Requests and temperatures are sampled within Delta of each threshold.
Delta == 2

(***************************************************************************)
(* uint32_t arithmetic on halves.                                          *)
(***************************************************************************)
Half == 2^16

\* (uint32_t)n for an int n: reduction modulo 2^32.
ToU32(n) == [hi |-> (n \div Half) % Half, lo |-> n % Half]

\* (int)u for a uint32_t u: values at and above 2^31 wrap to negative
\* (gcc/clang: conversion modulo 2^32).
ToInt(u) ==
    IF u.hi >= Half \div 2
    THEN (u.hi - Half) * Half + u.lo
    ELSE u.hi * Half + u.lo

\* a < b and a > b on uint32_t.
ULt(a, b) == a.hi < b.hi \/ (a.hi = b.hi /\ a.lo < b.lo)
UGt(a, b) == ULt(b, a)
ULe(a, b) == ~ULt(b, a)

\* a + b on uint32_t, wrapping modulo 2^32.
UAdd(a, b) ==
    LET lo == a.lo + b.lo
    IN  [hi |-> (a.hi + b.hi + lo \div Half) % Half, lo |-> lo % Half]

RECURSIVE BitAnd(_, _, _)
BitAnd(a, b, n) ==
    IF n = 0 \/ a = 0 \/ b = 0 THEN 0
    ELSE (a % 2) * (b % 2) + 2 * BitAnd(a \div 2, b \div 2, n - 1)

RECURSIVE BitOr(_, _, _)
BitOr(a, b, n) ==
    IF n = 0 THEN 0
    ELSE IF a = 0 THEN b
    ELSE IF b = 0 THEN a
    ELSE (IF a % 2 = 1 \/ b % 2 = 1 THEN 1 ELSE 0)
         + 2 * BitOr(a \div 2, b \div 2, n - 1)

\* a & b, a | b and ~a on uint32_t.
UAnd(a, b) == [hi |-> BitAnd(a.hi, b.hi, 16), lo |-> BitAnd(a.lo, b.lo, 16)]
UOr(a, b) == [hi |-> BitOr(a.hi, b.hi, 16), lo |-> BitOr(a.lo, b.lo, 16)]
UNot(a) == [hi |-> Half - 1 - a.hi, lo |-> Half - 1 - a.lo]

(***************************************************************************)
(* 1) Compile-time configuration.                                          *)
(***************************************************************************)
FLIGHT_MAX_THRUST_N == 5000
GROUND_MAX_THRUST_N == 4000

CFG_MAX_THRUST_N ==
    IF BUILD = "FLIGHT_BUILD" THEN FLIGHT_MAX_THRUST_N ELSE GROUND_MAX_THRUST_N

CFG_ENABLE_ASSERTS == IF BUILD = "FLIGHT_BUILD" THEN 0 ELSE 1

EXIT_SUCCESS == 0
EXIT_FAILURE == 1

(***************************************************************************)
(* 6) Hardware registers and the macros that write them.                   *)
(***************************************************************************)
\* static hw_regs_t HW = {0};
HW_ZERO == [CTRL |-> ToU32(0), STATUS |-> ToU32(0),
            THRUST |-> ToU32(0), SENS_TEMP |-> ToU32(0)]

CTRL_ENABLE == ToU32(1)
CTRL_FAULT == ToU32(2)

ENABLE_SYSTEM(hw) == [hw EXCEPT !.CTRL = UOr(@, CTRL_ENABLE)]

\* Variant: the whole register is cleared instead of the ENABLE bit alone.
DISABLE_SYSTEM_clear_all(hw) == [hw EXCEPT !.CTRL = ToU32(0)]

DISABLE_SYSTEM(hw) == [hw EXCEPT !.CTRL = UAnd(@, UNot(CTRL_ENABLE))]

SIGNAL_FAULT(hw) == [hw EXCEPT !.CTRL = UOr(@, CTRL_FAULT)]

\* REG32(CTRL) & CTRL_FAULT, as a truth value.
fault_is_set(hw) == UAnd(hw.CTRL, CTRL_FAULT) # ToU32(0)

enable_is_set(hw) == UAnd(hw.CTRL, CTRL_ENABLE) # ToU32(0)

\* Variant: the request is written without the cap.
SET_THRUST_N_uncapped(hw, newton) == [hw EXCEPT !.THRUST = newton]

\* Thrust write with safety cap.
SET_THRUST_N(hw, newton) ==
    LET _n == IF UGt(newton, ToU32(CFG_MAX_THRUST_N))
              THEN ToU32(CFG_MAX_THRUST_N)
              ELSE newton
    IN  [hw EXCEPT !.THRUST = _n]

(***************************************************************************)
(* 7) Platform abstraction: the sensor read.                               *)
(***************************************************************************)
\* Variant: the conversion saturates at INT_MAX instead of wrapping.
read_sensor_riscv_saturating(hw) ==
    [out |-> IF hw.SENS_TEMP.hi >= Half \div 2
             THEN (Half \div 2 - 1) * Half + (Half - 1)
             ELSE ToInt(hw.SENS_TEMP),
     rc |-> 0]

read_sensor_riscv(hw) == [out |-> ToInt(hw.SENS_TEMP), rc |-> 0]

read_sensor_arm(hw) == [out |-> ToInt(hw.SENS_TEMP), rc |-> 0]

READ_TEMP_RAW(hw) ==
    IF CPU = "CPU_ARM" THEN read_sensor_arm(hw) ELSE read_sensor_riscv(hw)

(***************************************************************************)
(* 8) X-macro: error codes and messages.                                   *)
(***************************************************************************)
ERR_OK == 0
ERR_SENSOR_FAIL == 10
ERR_THRUST_RANGE == 20
ERR_SYSTEM_FAULT == 30

ERROR_TABLE ==
    << [name |-> "ERR_OK",           code |-> ERR_OK,           msg |-> "No Error"],
       [name |-> "ERR_SENSOR_FAIL",  code |-> ERR_SENSOR_FAIL,  msg |-> "Sensor Failure"],
       [name |-> "ERR_THRUST_RANGE", code |-> ERR_THRUST_RANGE, msg |-> "Thrust Out of Range"],
       [name |-> "ERR_SYSTEM_FAULT", code |-> ERR_SYSTEM_FAULT, msg |-> "System Fault"] >>

\* Variant: the message is found by table index e / 10 instead of by code.
error_to_str_by_index(e) ==
    IF e >= 0 /\ e \div 10 + 1 \in DOMAIN ERROR_TABLE
    THEN ERROR_TABLE[e \div 10 + 1].msg
    ELSE "Unknown"

\* switch (e) { case name: return msg; ... default: return "Unknown"; }
error_to_str(e) ==
    LET hits == {k \in DOMAIN ERROR_TABLE : ERROR_TABLE[k].code = e}
    IN  IF hits = {}
        THEN "Unknown"
        ELSE ERROR_TABLE[CHOOSE k \in hits : \A j \in hits : k <= j].msg

(***************************************************************************)
(* 9) The control demo.                                                    *)
(***************************************************************************)
SEED_TEMP == 42
POLICY_TEMP == 30
THRUST_COLD == 3000
THRUST_WARM == 1500

\* Variant: CTRL is assigned (=) instead of or-ed (|=).
init_system_overwrite_ctrl(hw) ==
    [hw |-> [hw EXCEPT !.CTRL = CTRL_ENABLE, !.SENS_TEMP = ToU32(SEED_TEMP)], rc |-> 0]

init_system(hw) ==
    [hw |-> [ENABLE_SYSTEM(hw) EXCEPT !.SENS_TEMP = ToU32(SEED_TEMP)], rc |-> 0]

\* Variant: a raw reading of zero is taken for a failed read.
poll_temperature_c_zero_fails(hw, out_c) ==
    LET raw == READ_TEMP_RAW(hw)
    IN  IF raw.rc # 0 \/ raw.out = 0
        THEN [rc |-> ERR_SENSOR_FAIL, out_c |-> out_c]
        ELSE [rc |-> ERR_OK, out_c |-> raw.out]

\* out_c is the caller's value of *out_c, left alone when the read fails.
poll_temperature_c(hw, out_c) ==
    LET raw == READ_TEMP_RAW(hw)
    IN  IF raw.rc # 0
        THEN [rc |-> ERR_SENSOR_FAIL, out_c |-> out_c]
        ELSE [rc |-> ERR_OK, out_c |-> raw.out]

\* Variant: the gross-range test is >= instead of >.
command_thrust_inclusive(hw, desired_n) ==
    IF ~ULt(desired_n, ToU32(CFG_MAX_THRUST_N * 2))
    THEN [hw |-> hw, rc |-> ERR_THRUST_RANGE]
    ELSE [hw |-> SET_THRUST_N(hw, desired_n), rc |-> ERR_OK]

\* Variant: the (capped) write happens before the gross-range test.
command_thrust_write_first(hw, desired_n) ==
    IF UGt(desired_n, ToU32(CFG_MAX_THRUST_N * 2))
    THEN [hw |-> SET_THRUST_N(hw, desired_n), rc |-> ERR_THRUST_RANGE]
    ELSE [hw |-> SET_THRUST_N(hw, desired_n), rc |-> ERR_OK]

command_thrust(hw, desired_n) ==
    IF UGt(desired_n, ToU32(CFG_MAX_THRUST_N * 2))
    THEN [hw |-> hw, rc |-> ERR_THRUST_RANGE]
    ELSE [hw |-> SET_THRUST_N(hw, desired_n), rc |-> ERR_OK]

\* uint32_t desired = (temp_c < 30) ? 3000 : 1500;
policy(temp_c) == ToU32(IF temp_c < POLICY_TEMP THEN THRUST_COLD ELSE THRUST_WARM)

\* Variant: the fault bit is checked before the thrust command.
run_control_loop_once_fault_first(hw) ==
    LET p == poll_temperature_c(hw, 0)
        c == command_thrust(hw, policy(p.out_c))
    IN  IF p.rc # ERR_OK THEN [hw |-> hw, rc |-> p.rc]
        ELSE IF fault_is_set(hw) THEN [hw |-> hw, rc |-> ERR_SYSTEM_FAULT]
        ELSE IF c.rc # ERR_OK THEN [hw |-> c.hw, rc |-> c.rc]
        ELSE [hw |-> c.hw, rc |-> ERR_OK]

run_control_loop_once(hw) ==
    LET p == poll_temperature_c(hw, 0)
        c == command_thrust(hw, policy(p.out_c))
    IN  IF p.rc # ERR_OK THEN [hw |-> hw, rc |-> p.rc]
        ELSE IF c.rc # ERR_OK THEN [hw |-> c.hw, rc |-> c.rc]
        ELSE IF fault_is_set(c.hw) THEN [hw |-> c.hw, rc |-> ERR_SYSTEM_FAULT]
        ELSE [hw |-> c.hw, rc |-> ERR_OK]

(***************************************************************************)
(* The inputs the operations are called with.                              *)
(***************************************************************************)
Near(n) == {x \in (n - Delta)..(n + Delta) : x >= 0}

\* uint32_t values at 2^16, 2^31 - 1, 2^31 and 2^32 - 1.
WideU32 ==
    { [hi |-> 1, lo |-> 0], [hi |-> Half \div 2 - 1, lo |-> Half - 1],
      [hi |-> Half \div 2, lo |-> 0], [hi |-> Half - 1, lo |-> Half - 1] }

Requests ==
    { ToU32(x) : x \in {0} \cup Near(GROUND_MAX_THRUST_N) \cup Near(FLIGHT_MAX_THRUST_N)
                       \cup Near(2 * GROUND_MAX_THRUST_N)
                       \cup Near(2 * FLIGHT_MAX_THRUST_N) }
    \cup WideU32

\* Raw sensor values: around the policy threshold, and the same distances
\* above 2^31 and below 2^32.
Temperatures ==
    { ToU32(x) : x \in {0, SEED_TEMP} \cup Near(POLICY_TEMP) }
    \cup { [hi |-> Half \div 2, lo |-> x] : x \in Near(POLICY_TEMP) }
    \cup { [hi |-> Half - 1, lo |-> Half - x] : x \in Near(POLICY_TEMP) }
    \cup WideU32

Codes ==
    UNION { (c - 1)..(c + 1) : c \in {ERR_OK, ERR_SENSOR_FAIL, ERR_THRUST_RANGE,
                                       ERR_SYSTEM_FAULT} }
    \cup {-ERR_SENSOR_FAIL, ERR_SYSTEM_FAULT + ERR_SENSOR_FAIL, Half,
          (-Half) * (Half \div 2), (Half \div 2 - 1) * Half + (Half - 1)}

(***************************************************************************)
(* The operations, called in any order on the register bank.  op, arg, rc, *)
(* code and msg describe the last call and its results.                    *)
(***************************************************************************)
Called(o, a, hw, r) ==
    /\ op' = o
    /\ arg' = a
    /\ HW' = hw
    /\ rc' = r
    /\ code' = ERR_OK
    /\ msg' = ""
    /\ UNCHANGED <<cfgVars, mainVars>>

initialize ==
    /\ pc = "none"
    /\ Called("initialize", ToU32(0), init_system(HW).hw, init_system(HW).rc)

enable ==
    /\ pc = "none"
    /\ Called("enable", ToU32(0), ENABLE_SYSTEM(HW), ERR_OK)

disable ==
    /\ pc = "none"
    /\ Called("disable", ToU32(0), DISABLE_SYSTEM(HW), ERR_OK)

signal_fault ==
    /\ pc = "none"
    /\ Called("signal_fault", ToU32(0), SIGNAL_FAULT(HW), ERR_OK)

set_thrust ==
    /\ pc = "none"
    /\ \E r \in Requests : Called("set_thrust", r, SET_THRUST_N(HW, r), ERR_OK)

call_command_thrust ==
    /\ pc = "none"
    /\ \E r \in Requests :
          Called("command_thrust", r, command_thrust(HW, r).hw, command_thrust(HW, r).rc)

run_once ==
    /\ pc = "none"
    /\ Called("run_once", ToU32(0), run_control_loop_once(HW).hw,
              run_control_loop_once(HW).rc)

lookup_error ==
    /\ pc = "none"
    /\ \E e \in Codes :
          /\ code' = e
          /\ msg' = error_to_str(e)
    /\ op' = "error_to_str"
    /\ arg' = ToU32(0)
    /\ rc' = ERR_OK
    /\ UNCHANGED <<cfgVars, HW, mainVars>>

Init ==
    /\ BUILD \in {"FLIGHT_BUILD", "GROUND_BUILD"}
    /\ CPU \in {"CPU_ARM", "CPU_RISCV"}
    /\ HW = HW_ZERO
    /\ op = "none"
    /\ arg = ToU32(0)
    /\ rc = ERR_OK
    /\ code = ERR_OK
    /\ msg = ""
    /\ pc = "none"
    /\ i = 0
    /\ stderr = <<>>
    /\ exit_status = -1

Next ==
    \/ initialize
    \/ enable
    \/ disable
    \/ signal_fault
    \/ set_thrust
    \/ call_command_thrust
    \/ run_once
    \/ lookup_error

Spec == Init /\ [][Next]_vars

(***************************************************************************)
(* The control loop on any raw value the sensor register can hold.         *)
(***************************************************************************)
InitSensor ==
    /\ BUILD \in {"FLIGHT_BUILD", "GROUND_BUILD"}
    /\ CPU \in {"CPU_ARM", "CPU_RISCV"}
    /\ \E t \in Temperatures : HW = [HW_ZERO EXCEPT !.SENS_TEMP = t]
    /\ op = "none"
    /\ arg = ToU32(0)
    /\ rc = ERR_OK
    /\ code = ERR_OK
    /\ msg = ""
    /\ pc = "none"
    /\ i = 0
    /\ stderr = <<>>
    /\ exit_status = -1

NextSensor ==
    \/ initialize
    \/ enable
    \/ disable
    \/ signal_fault
    \/ run_once

SpecSensor == InitSensor /\ [][NextSensor]_vars

(***************************************************************************)
(* 10) main, one statement at a time.                                      *)
(***************************************************************************)
LOOP_ITERATIONS == 3
TEMP_STEP == 5

Goto(l) == pc' = l

\* fprintf(stderr, "ERROR %d: %s\n", rc, error_to_str(rc));
PrintError == stderr' = Append(stderr, <<rc, error_to_str(rc)>>)

\* SAFE_CALL(init_system()): int _rc = (call);
main_init_call ==
    /\ pc = "init_call"
    /\ HW' = init_system(HW).hw
    /\ rc' = init_system(HW).rc
    /\ Goto("safe_call")
    /\ UNCHANGED <<cfgVars, callVars, i, stderr, exit_status>>

\* SAFE_CALL: if (_rc != 0) exit(EXIT_FAILURE);
main_safe_call ==
    /\ pc = "safe_call"
    /\ IF rc # 0
       THEN Goto("exited") /\ exit_status' = EXIT_FAILURE
       ELSE Goto("assert") /\ UNCHANGED exit_status
    /\ UNCHANGED <<cfgVars, callVars, HW, rc, i, stderr>>

\* ASSERT((CFG_MAX_THRUST_N % 10) == 0); then int i = 0;
main_assert ==
    /\ pc = "assert"
    /\ IF CFG_ENABLE_ASSERTS = 1 /\ ~(CFG_MAX_THRUST_N % 10 = 0)
       THEN Goto("aborted") /\ UNCHANGED i
       ELSE Goto("loop_test") /\ i' = 0
    /\ UNCHANGED <<cfgVars, callVars, HW, rc, stderr, exit_status>>

\* for (...; i < 3; ...)
main_loop_test ==
    /\ pc = "loop_test"
    /\ IF i < LOOP_ITERATIONS THEN Goto("loop_call") ELSE Goto("fault")
    /\ UNCHANGED <<cfgVars, callVars, HW, rc, i, stderr, exit_status>>

\* int rc = run_control_loop_once();
main_loop_call ==
    /\ pc = "loop_call"
    /\ HW' = run_control_loop_once(HW).hw
    /\ rc' = run_control_loop_once(HW).rc
    /\ Goto("loop_rc")
    /\ UNCHANGED <<cfgVars, callVars, i, stderr, exit_status>>

\* Variant: the test is inverted (rc == ERR_OK breaks).
main_loop_rc_inverted ==
    /\ pc = "loop_rc"
    /\ IF rc = ERR_OK
       THEN PrintError /\ Goto("fault")
       ELSE UNCHANGED stderr /\ Goto("loop_bump")
    /\ UNCHANGED <<cfgVars, callVars, HW, rc, i, exit_status>>

\* if (rc != ERR_OK) { fprintf(...); break; }
main_loop_rc ==
    /\ pc = "loop_rc"
    /\ IF rc # ERR_OK
       THEN PrintError /\ Goto("fault")
       ELSE UNCHANGED stderr /\ Goto("loop_bump")
    /\ UNCHANGED <<cfgVars, callVars, HW, rc, i, exit_status>>

\* REG32(SENS_TEMP) += 5;
main_loop_bump ==
    /\ pc = "loop_bump"
    /\ HW' = [HW EXCEPT !.SENS_TEMP = UAdd(@, ToU32(TEMP_STEP))]
    /\ Goto("loop_inc")
    /\ UNCHANGED <<cfgVars, callVars, rc, i, stderr, exit_status>>

\* ++i
main_loop_inc ==
    /\ pc = "loop_inc"
    /\ i' = i + 1
    /\ Goto("loop_test")
    /\ UNCHANGED <<cfgVars, callVars, HW, rc, stderr, exit_status>>

\* SIGNAL_FAULT();
main_fault ==
    /\ pc = "fault"
    /\ HW' = SIGNAL_FAULT(HW)
    /\ Goto("final_call")
    /\ UNCHANGED <<cfgVars, callVars, rc, i, stderr, exit_status>>

\* int rc = run_control_loop_once();
main_final_call ==
    /\ pc = "final_call"
    /\ HW' = run_control_loop_once(HW).hw
    /\ rc' = run_control_loop_once(HW).rc
    /\ Goto("final_rc")
    /\ UNCHANGED <<cfgVars, callVars, i, stderr, exit_status>>

\* if (rc != ERR_OK) ...
main_final_rc ==
    /\ pc = "final_rc"
    /\ IF rc # ERR_OK THEN Goto("final_print") ELSE Goto("disable")
    /\ UNCHANGED <<cfgVars, callVars, HW, rc, i, stderr, exit_status>>

\* ... fprintf(stderr, "ERROR %d: %s\n", rc, error_to_str(rc));
main_final_print ==
    /\ pc = "final_print"
    /\ PrintError
    /\ Goto("disable")
    /\ UNCHANGED <<cfgVars, callVars, HW, rc, i, exit_status>>

\* DISABLE_SYSTEM();
main_disable ==
    /\ pc = "disable"
    /\ HW' = DISABLE_SYSTEM(HW)
    /\ Goto("return")
    /\ UNCHANGED <<cfgVars, callVars, rc, i, stderr, exit_status>>

\* return 0;
main_return ==
    /\ pc = "return"
    /\ exit_status' = EXIT_SUCCESS
    /\ Goto("done")
    /\ UNCHANGED <<cfgVars, callVars, HW, rc, i, stderr>>

InitMain ==
    /\ BUILD \in {"FLIGHT_BUILD", "GROUND_BUILD"}
    /\ CPU \in {"CPU_ARM", "CPU_RISCV"}
    /\ HW = HW_ZERO
    /\ op = "none"
    /\ arg = ToU32(0)
    /\ rc = ERR_OK
    /\ code = ERR_OK
    /\ msg = ""
    /\ pc = "init_call"
    /\ i = 0
    /\ stderr = <<>>
    /\ exit_status = -1

NextMain ==
    \/ main_init_call
    \/ main_safe_call
    \/ main_assert
    \/ main_loop_test
    \/ main_loop_call
    \/ main_loop_rc
    \/ main_loop_bump
    \/ main_loop_inc
    \/ main_fault
    \/ main_final_call
    \/ main_final_rc
    \/ main_final_print
    \/ main_disable
    \/ main_return

\* main is one sequential thread: it runs until it returns or exits.
SpecMain == InitMain /\ [][NextMain]_vars /\ WF_vars(NextMain)

(***************************************************************************)
(* Properties.                                                             *)
(***************************************************************************)
Cap == ToU32(CFG_MAX_THRUST_N)
TwiceCap == ToU32(2 * CFG_MAX_THRUST_N)
Bank(C, S, T, M) == [CTRL |-> C, STATUS |-> S, THRUST |-> T, SENS_TEMP |-> M]

\* The register value read as a two's-complement signed temperature.
SignedTemperature(u) ==
    IF ULt(u, [hi |-> Half \div 2, lo |-> 0])
    THEN u.hi * Half + u.lo
    ELSE -((Half - 1 - u.hi) * Half + (Half - 1 - u.lo)) - 1

\* The thrust the policy table gives for a register value.
PolicyThrust(u) == IF SignedTemperature(u) < 30 THEN ToU32(3000) ELSE ToU32(1500)

\* C1: in every state reachable by initialize, enable, disable, signal_fault,
\* set_thrust(r), command_thrust(r) and run_once, THRUST is at most the cap of
\* the build profile (4000 ground, 5000 flight).
C1_ThrustWithinCap ==
    /\ BUILD = "GROUND_BUILD" => ULe(HW.THRUST, ToU32(4000))
    /\ BUILD = "FLIGHT_BUILD" => ULe(HW.THRUST, ToU32(5000))

\* A request above the cap was written, and THRUST is the cap.
C1_Witness ==
    /\ op \in {"set_thrust", "command_thrust"}
    /\ UGt(arg, Cap)
    /\ rc = ERR_OK
    /\ HW.THRUST = Cap

\* C2: for r <= 2*cap, command_thrust(r) returns OK and leaves
\* THRUST = min(r, cap); for r <= cap set_thrust(r) leaves THRUST = r too.
C2_CommandThrustClamps ==
    /\ (op = "command_thrust" /\ ULe(arg, TwiceCap)) =>
          /\ rc = ERR_OK
          /\ ULe(arg, Cap) => HW.THRUST = arg
          /\ UGt(arg, Cap) => HW.THRUST = Cap
    /\ (op = "set_thrust" /\ ULe(arg, Cap)) => HW.THRUST = arg

\* command_thrust(2*cap) returned OK with THRUST = cap.
C2_Witness ==
    /\ op = "command_thrust"
    /\ arg = TwiceCap
    /\ rc = ERR_OK
    /\ HW.THRUST = Cap

\* C3: for r > 2*cap, command_thrust(r) returns THRUST_RANGE and leaves
\* every register as it was before the call.
C3_CommandThrustRejects ==
    [][(op' = "command_thrust" /\ UGt(arg', TwiceCap)) =>
          (rc' = ERR_THRUST_RANGE /\ HW' = HW)]_vars

\* command_thrust(2*cap + 1) was rejected with a non-zero THRUST in place.
C3_Witness ==
    /\ op = "command_thrust"
    /\ arg = ToU32(2 * CFG_MAX_THRUST_N + 1)
    /\ rc = ERR_THRUST_RANGE
    /\ HW.THRUST # ToU32(0)

\* C4: the FAULT bit is set right after signal_fault(), and no operation
\* clears it once set.
C4_FaultLatch ==
    [][/\ op' = "signal_fault" => fault_is_set(HW')
       /\ fault_is_set(HW) => fault_is_set(HW')]_vars

\* The fault is still set after a later disable().
C4_Witness ==
    /\ op = "disable"
    /\ fault_is_set(HW)
    /\ ~enable_is_set(HW)

\* C5 (as claimed): after initialize(), from whatever state it was called in,
\* FAULT is clear, ENABLE is set and SENS_TEMP is 42.
C5_FaultClearAfterInitialize ==
    op = "initialize" =>
        /\ ~fault_is_set(HW)
        /\ enable_is_set(HW)
        /\ HW.SENS_TEMP = ToU32(42)

\* C5 (amended): after initialize(), ENABLE is set, SENS_TEMP is 42, and
\* FAULT, STATUS and THRUST are as they were on entry: FAULT is clear after
\* the call exactly when it was clear before it.
C5_InitializeKeepsFault ==
    [][op' = "initialize" =>
          /\ enable_is_set(HW')
          /\ HW'.SENS_TEMP = ToU32(42)
          /\ fault_is_set(HW') <=> fault_is_set(HW)
          /\ HW'.STATUS = HW.STATUS
          /\ HW'.THRUST = HW.THRUST]_vars

\* initialize() returned with FAULT clear, from a state with thrust written.
C5_Witness ==
    /\ op = "initialize"
    /\ ~fault_is_set(HW)
    /\ enable_is_set(HW)
    /\ HW.SENS_TEMP = ToU32(42)
    /\ HW.THRUST # ToU32(0)

\* C6: run_once() called with FAULT set returns SYSTEM_FAULT, and THRUST
\* holds the policy value for the current temperature.
C6_FaultedRunStillWritesThrust ==
    [][(op' = "run_once" /\ fault_is_set(HW)) =>
          /\ rc' = ERR_SYSTEM_FAULT
          /\ HW'.THRUST = PolicyThrust(HW.SENS_TEMP)]_vars

\* run_once() reported the fault with the warm-policy thrust written.
C6_Witness ==
    /\ op = "run_once"
    /\ rc = ERR_SYSTEM_FAULT
    /\ fault_is_set(HW)
    /\ HW.SENS_TEMP = ToU32(42)
    /\ HW.THRUST = ToU32(1500)

\* C7: the demo run with cap 4000: the three iterations see 42, 47, 52,
\* command 1500 and return OK; the loop does not break early and SENS_TEMP
\* ends at 57; the final run_once returns SYSTEM_FAULT; the system is
\* disabled with FAULT still set; SAFE_CALL never aborts; the process
\* terminates with exit status 0.
C7_DemoInvariant ==
    BUILD = "GROUND_BUILD" =>
        /\ pc = "loop_call" => i \in 0..2 /\ HW.SENS_TEMP = ToU32(42 + 5 * i)
        /\ pc = "loop_rc" => rc = 0 /\ HW.THRUST = ToU32(1500)
        /\ pc = "fault" => i = 3 /\ HW.SENS_TEMP = ToU32(57) /\ stderr = <<>>
        /\ pc = "final_rc" => rc = 30 /\ HW.THRUST = ToU32(1500)
        /\ pc = "done" =>
              /\ exit_status = 0
              /\ HW = Bank(ToU32(2), ToU32(0), ToU32(1500), ToU32(57))
              /\ stderr = << <<30, "System Fault">> >>
        /\ pc \notin {"exited", "aborted"}
        /\ exit_status \in {-1, 0}

C7_DemoRun == []C7_DemoInvariant /\ <>(pc = "done")

\* The ground-profile demo has returned from main.
C7_Witness ==
    /\ BUILD = "GROUND_BUILD"
    /\ pc = "done"
    /\ exit_status = 0
    /\ i = 3

\* C8: error_to_str maps 0, 10, 20 and 30 each to its own non-empty message
\* and every other code to "Unknown".
C8_ErrorLookupTotal ==
    op = "error_to_str" =>
        /\ msg # ""
        /\ code = 0 => msg = "No Error"
        /\ code = 10 => msg = "Sensor Failure"
        /\ code = 20 => msg = "Thrust Out of Range"
        /\ code = 30 => msg = "System Fault"
        /\ code \notin {0, 10, 20, 30} => msg = "Unknown"

\* A code next to a table entry was looked up and gave the placeholder.
C8_Witness ==
    /\ op = "error_to_str"
    /\ code = 11
    /\ msg = "Unknown"

\* C9: for every register value of SENS_TEMP, read as a signed temperature t,
\* run_once() leaves THRUST = 3000 if t < 30 and 1500 otherwise, also for
\* register values at and above 2^31.
C9_PolicyOnSignedTemperature ==
    [][op' = "run_once" => HW'.THRUST = PolicyThrust(HW.SENS_TEMP)]_vars

\* run_once() ran on a register value at or above 2^31 and commanded 3000.
C9_Witness ==
    /\ op = "run_once"
    /\ ~ULt(HW.SENS_TEMP, [hi |-> Half \div 2, lo |-> 0])
    /\ HW.THRUST = ToU32(3000)

\* C10: run_once() returns OK or SYSTEM_FAULT, SYSTEM_FAULT exactly when
\* FAULT is set on entry, writes an unclamped policy value, and changes no
\* register other than THRUST.
C10_RunOnceOutcome ==
    [][op' = "run_once" =>
          /\ rc' \in {ERR_OK, ERR_SYSTEM_FAULT}
          /\ rc' = ERR_SYSTEM_FAULT <=> fault_is_set(HW)
          /\ HW'.THRUST \in {ToU32(1500), ToU32(3000)}
          /\ HW' = [HW EXCEPT !.THRUST = HW'.THRUST]]_vars

\* run_once() returned OK with the cold-policy thrust written.
C10_Witness ==
    /\ op = "run_once"
    /\ rc = ERR_OK
    /\ ~fault_is_set(HW)
    /\ HW.THRUST = ToU32(3000)

====
